---- MODULE Spec2Model ----
(***************************************************************************)
(* A model of span-map: SpanMap<K, V> keeps a BTreeMap from LeftBound<K>   *)
(* to BTreeSet<V>.  Each key starts a cell that extends to the next key.   *)
(* insert_span / remove_span split the partition at the two ends of a      *)
(* span, update the sets of the cells in between and try to merge the two  *)
(* touched boundaries with their left neighbours.                          *)
(***************************************************************************)
EXTENDS Integers, FiniteSets, Sequences, TLC

\* ------------------------------------------------------------------ bounds
\* Number of distinct edge values.  The key type K is any ordered type, so
\* the edge values 2, 4, .. are spaced to leave keys before, between and
\* after them: queried keys range over 1..2*MaxKey+1.
MaxKey == 2
\* Values stored in the sets are drawn from 1..MaxVal.
MaxVal == 2
\* Number of mutating calls made on one map.
MaxOps == 3

EdgeVals == {2 * i : i \in 1..MaxKey}
QueryKeys == 1..(2 * MaxKey + 1)
Values == 1..MaxVal

\* ------------------------------------------------------------------ edges
\* enum LeftBound<T> { Unbounded, Included(T), Excluded(T) }
LUnbounded == [side |-> "L", kind |-> "Unbounded", t |-> 0]
LIncluded(t) == [side |-> "L", kind |-> "Included", t |-> t]
LExcluded(t) == [side |-> "L", kind |-> "Excluded", t |-> t]

\* enum RightBound<T> { Excluded(T), Included(T), Unbounded }
RUnbounded == [side |-> "R", kind |-> "Unbounded", t |-> 0]
RIncluded(t) == [side |-> "R", kind |-> "Included", t |-> t]
RExcluded(t) == [side |-> "R", kind |-> "Excluded", t |-> t]

\* Every left edge / right edge / span a caller can build over EdgeVals.
LeftBounds == {LUnbounded} \cup {LIncluded(t) : t \in EdgeVals} \cup {LExcluded(t) : t \in EdgeVals}
RightBounds == {RUnbounded} \cup {RIncluded(t) : t \in EdgeVals} \cup {RExcluded(t) : t \in EdgeVals}

\* Ord for the key type T (integers here).
TCmp(a, b) == IF a < b THEN "Less" ELSE IF a = b THEN "Equal" ELSE "Greater"

\* Ordering::reverse
Reverse(o) == IF o = "Less" THEN "Greater" ELSE IF o = "Greater" THEN "Less" ELSE "Equal"

\* Left-edge order without the tie-break between Included(v) and Excluded(v)
LeftCmp_NoTieBreak(self, other) ==
    IF self.kind = "Unbounded"
    THEN IF other.kind = "Unbounded" THEN "Equal" ELSE "Less"
    ELSE IF other.kind = "Unbounded" THEN "Greater" ELSE TCmp(self.t, other.t)

\* impl Ord for LeftBound<T>: cmp(self, other)
LeftCmp(self, other) ==
    IF self.kind = "Unbounded"
    THEN IF other.kind = "Unbounded" THEN "Equal" ELSE "Less"
    ELSE IF self.kind = "Included"
    THEN IF other.kind = "Unbounded" THEN "Greater"
         ELSE IF other.kind = "Included" THEN TCmp(self.t, other.t)
         ELSE IF self.t = other.t THEN "Less" ELSE TCmp(self.t, other.t)
    ELSE IF other.kind = "Unbounded" THEN "Greater"
         ELSE IF other.kind = "Included"
              THEN IF self.t = other.t THEN "Greater" ELSE TCmp(self.t, other.t)
         ELSE TCmp(self.t, other.t)

\* Right-edge order with the tie-break of the left edges: Included(v) before
\* Excluded(v)
RightCmp_LeftTieBreak(self, other) ==
    IF self.kind = "Unbounded"
    THEN IF other.kind = "Unbounded" THEN "Equal" ELSE "Greater"
    ELSE IF other.kind = "Unbounded" THEN "Less"
    ELSE IF self.t # other.t THEN TCmp(self.t, other.t)
    ELSE IF self.kind = other.kind THEN "Equal"
    ELSE IF self.kind = "Included" THEN "Less" ELSE "Greater"

\* impl Ord for RightBound<T>: cmp(self, other)
RightCmp(self, other) ==
    IF self.kind = "Excluded"
    THEN IF other.kind = "Excluded" THEN TCmp(self.t, other.t)
         ELSE IF other.kind = "Included"
              THEN IF self.t = other.t THEN "Less" ELSE TCmp(self.t, other.t)
         ELSE "Less"
    ELSE IF self.kind = "Included"
    THEN IF other.kind = "Excluded"
         THEN IF self.t = other.t THEN "Greater" ELSE TCmp(self.t, other.t)
         ELSE IF other.kind = "Included" THEN TCmp(self.t, other.t)
         ELSE "Less"
    ELSE IF other.kind = "Unbounded" THEN "Equal" ELSE "Greater"

\* T::partial_cmp for a key type that is Ord: Some(cmp); an Option is
\* modelled as a set, None the empty set and Some(o) as {o}
TPartialCmp(a, b) == {TCmp(a, b)}

\* Left-edge partial order as a derive would give it: the variant first
\* (Unbounded, Included, Excluded), then the value
LeftPartialCmp_Derived(self, other) ==
    LET rank(e) == IF e.kind = "Unbounded" THEN 0 ELSE IF e.kind = "Included" THEN 1 ELSE 2
    IN  IF rank(self) # rank(other) THEN {TCmp(rank(self), rank(other))}
        ELSE IF self.kind = "Unbounded" THEN {"Equal"}
        ELSE TPartialCmp(self.t, other.t)

\* impl PartialOrd for LeftBound<T>: partial_cmp(self, other)
LeftPartialCmp(self, other) ==
    IF self.kind = "Unbounded"
    THEN IF other.kind = "Unbounded" THEN {"Equal"} ELSE {"Less"}
    ELSE IF self.kind = "Included"
    THEN IF other.kind = "Unbounded" THEN {"Greater"}
         ELSE IF other.kind = "Included" THEN TPartialCmp(self.t, other.t)
         ELSE IF self.t = other.t THEN {"Less"} ELSE TPartialCmp(self.t, other.t)
    ELSE IF other.kind = "Unbounded" THEN {"Greater"}
         ELSE IF other.kind = "Included"
              THEN IF self.t = other.t THEN {"Greater"} ELSE TPartialCmp(self.t, other.t)
         ELSE TPartialCmp(self.t, other.t)

\* impl PartialOrd for RightBound<T>: partial_cmp(self, other)
RightPartialCmp(self, other) ==
    IF self.kind = "Excluded"
    THEN IF other.kind = "Excluded" THEN TPartialCmp(self.t, other.t)
         ELSE IF other.kind = "Included"
              THEN IF self.t = other.t THEN {"Less"} ELSE TPartialCmp(self.t, other.t)
         ELSE {"Less"}
    ELSE IF self.kind = "Included"
    THEN IF other.kind = "Excluded"
         THEN IF self.t = other.t THEN {"Greater"} ELSE TPartialCmp(self.t, other.t)
         ELSE IF other.kind = "Included" THEN TPartialCmp(self.t, other.t)
         ELSE {"Less"}
    ELSE IF other.kind = "Unbounded" THEN {"Equal"} ELSE {"Greater"}

\* Cross equality that ignores the kind of the edges
LeftEqRight_AnyKind(self, other) == self.kind # "Unbounded" /\ other.kind # "Unbounded" /\ self.t = other.t

\* impl PartialEq<RightBound<T>> for LeftBound<T>: eq(self, other)
LeftEqRight(self, other) ==
    IF self.kind = "Included" /\ other.kind = "Included" THEN self.t = other.t ELSE FALSE

\* impl PartialEq<LeftBound<T>> for RightBound<T>: eq(self, other)
RightEqLeft(self, other) == LeftEqRight(other, self)

\* Cross comparison without the tie-break at equal values: the values alone
\* are compared
LeftCmpRight_NoTieBreak(self, other) ==
    IF self.kind = "Unbounded" \/ other.kind = "Unbounded" THEN "Less"
    ELSE TCmp(self.t, other.t)

\* impl PartialOrd<RightBound<T>> for LeftBound<T>: partial_cmp(self, other)
LeftCmpRight(self, other) ==
    IF self.kind = "Unbounded" THEN "Less"
    ELSE IF self.kind = "Included"
    THEN IF other.kind = "Excluded"
         THEN IF self.t = other.t THEN "Greater" ELSE TCmp(self.t, other.t)
         ELSE IF other.kind = "Included" THEN TCmp(self.t, other.t)
         ELSE "Less"
    ELSE IF other.kind = "Excluded"
         THEN IF self.t = other.t THEN "Greater" ELSE TCmp(self.t, other.t)
         ELSE IF other.kind = "Included"
              THEN IF self.t = other.t THEN "Greater" ELSE TCmp(self.t, other.t)
         ELSE "Less"

\* Right-vs-left comparison that forgets to reverse the result
RightCmpLeft_NoReverse(self, other) == LeftCmpRight(other, self)

\* impl PartialOrd<LeftBound<T>> for RightBound<T>: partial_cmp(self, other)
RightCmpLeft(self, other) == Reverse(LeftCmpRight(other, self))

\* adjacent_left that returns Excluded(v) for both bounded kinds
adjacent_left_AlwaysExcluded(self) ==
    IF self.kind = "Unbounded" THEN {} ELSE {LExcluded(self.t)}

\* adjacent_left that keeps the kind of the edge instead of flipping it
adjacent_left_SameKind(self) ==
    IF self.kind = "Unbounded" THEN {}
    ELSE IF self.kind = "Included" THEN {LIncluded(self.t)}
    ELSE {LExcluded(self.t)}

\* RightBound::adjacent_left; None is modelled as the empty set, Some(b) as {b}.
adjacent_left(self) ==
    IF self.kind = "Unbounded" THEN {}
    ELSE IF self.kind = "Included" THEN {LExcluded(self.t)}
    ELSE {LIncluded(self.t)}

\* ------------------------------------------------------------------- span
\* Span::new(left, right)
SpanNew(left, right) == [left |-> left, right |-> right]

Spans == {SpanNew(l, r) : l \in LeftBounds, r \in RightBounds}

\* std::ops::Bound<T>
BUnbounded == [kind |-> "Unbounded", t |-> 0]
BIncluded(t) == [kind |-> "Included", t |-> t]
BExcluded(t) == [kind |-> "Excluded", t |-> t]

Bounds == {BUnbounded} \cup {BIncluded(t) : t \in EdgeVals} \cup {BExcluded(t) : t \in EdgeVals}

\* The arguments that implement RangeBounds<T>: a..b, a..=b, a.., ..b, ..=b,
\* .. and a pair (Bound<T>, Bound<T>)
Ranges ==
    {[type |-> "Range", start |-> a, end |-> b] : a \in EdgeVals, b \in EdgeVals}
    \cup {[type |-> "RangeInclusive", start |-> a, end |-> b] : a \in EdgeVals, b \in EdgeVals}
    \cup {[type |-> "RangeFrom", start |-> a] : a \in EdgeVals}
    \cup {[type |-> "RangeTo", end |-> b] : b \in EdgeVals}
    \cup {[type |-> "RangeToInclusive", end |-> b] : b \in EdgeVals}
    \cup {[type |-> "RangeFull"]}
    \cup {[type |-> "Pair", start |-> s, end |-> e] : s \in Bounds, e \in Bounds}

\* RangeBounds::start_bound
start_bound(range) ==
    IF range.type \in {"Range", "RangeInclusive", "RangeFrom"} THEN BIncluded(range.start)
    ELSE IF range.type = "Pair" THEN range.start
    ELSE BUnbounded

\* RangeBounds::end_bound
end_bound(range) ==
    IF range.type \in {"Range", "RangeTo"} THEN BExcluded(range.end)
    ELSE IF range.type \in {"RangeInclusive", "RangeToInclusive"} THEN BIncluded(range.end)
    ELSE IF range.type = "Pair" THEN range.end
    ELSE BUnbounded

\* impl From<Bound<T>> for LeftBound<T>
LeftFromBound(bound) ==
    IF bound.kind = "Unbounded" THEN LUnbounded
    ELSE IF bound.kind = "Included" THEN LIncluded(bound.t)
    ELSE LExcluded(bound.t)

\* Conversion of an end bound that takes every bounded end for inclusive
RightFromBound_AlwaysIncluded(bound) ==
    IF bound.kind = "Unbounded" THEN RUnbounded ELSE RIncluded(bound.t)

\* impl From<Bound<T>> for RightBound<T>
RightFromBound(bound) ==
    IF bound.kind = "Unbounded" THEN RUnbounded
    ELSE IF bound.kind = "Included" THEN RIncluded(bound.t)
    ELSE RExcluded(bound.t)

\* Span::from_range(range)
from_range(range) == SpanNew(LeftFromBound(start_bound(range)), RightFromBound(end_bound(range)))

\* #[derive(PartialEq)] for Span<T>: both edges equal
SpanEq(self, other) == self.left = other.left /\ self.right = other.right

\* Span order that takes two spans touching at one point for ordered: <= and
\* >= in place of < and >
SpanPartialCmp_TouchIsOrdered(self, other) ==
    IF RightCmpLeft(self.right, other.left) # "Greater" THEN {"Less"}
    ELSE IF LeftCmpRight(self.left, other.right) # "Less" THEN {"Greater"}
    ELSE IF SpanEq(self, other) THEN {"Equal"}
    ELSE {}

\* impl PartialOrd for Span<T>: partial_cmp(self, other); None is the empty
\* set and Some(o) is {o}
SpanPartialCmp(self, other) ==
    IF RightCmpLeft(self.right, other.left) = "Less" THEN {"Less"}
    ELSE IF LeftCmpRight(self.left, other.right) = "Greater" THEN {"Greater"}
    ELSE IF SpanEq(self, other) THEN {"Equal"}
    ELSE {}

\* ---------------------------------------------------------------- SpanMap
\* m: BTreeMap<LeftBound<K>, BTreeSet<V>>, a function from its keys to sets
VARIABLES m, cov, prev, last, repeat, nops, edges, res

\* m      the map (field SpanMap::m)
\* cov    the reference coverage, key -> set of values
\* prev   the map as it was before the last call
\* last   the last call: its operation, span and value
\* repeat TRUE when the last call repeated the call before it
\* nops   the number of calls made so far
\* edges  three edges handed to the comparison operators
\* res    the results of the last comparison made on edges
vars == <<m, cov, prev, last, repeat, nops, edges, res>>

\* The variables of the map and the variables of the edge comparisons
mapVars == <<m, cov, prev, last, repeat, nops>>
edgeVars == <<edges, res>>

\* SpanMap::new(): one cell, Unbounded -> empty set
new == [b \in {LUnbounded} |-> {}]

\* BTreeMap::range(..=bound): the keys ordered at or before bound
RangeToInclusive(map, bound) == {b \in DOMAIN map : LeftCmp(b, bound) # "Greater"}

\* BTreeMap::range(bound..): the keys ordered at or after bound
RangeFrom(map, bound) == {b \in DOMAIN map : LeftCmp(b, bound) # "Less"}

\* Iterator::next_back on an ascending range: its greatest key
NextBack(keys) == CHOOSE b \in keys : \A c \in keys : LeftCmp(c, b) # "Greater"

\* BTreeMap::insert(key, set)
MapInsert(map, key, set) == [b \in (DOMAIN map) \cup {key} |-> IF b = key THEN set ELSE map[b]]

\* BTreeMap::remove(key)
MapRemove(map, key) == [b \in (DOMAIN map) \ {key} |-> map[b]]

\* SpanMap::get: the unwrap() fails when no key is <= Included(key)
GetPanics(map, key) == RangeToInclusive(map, LIncluded(key)) = {}

\* get that looks up range(..=Excluded(key)), so that a cell keyed
\* Excluded(key) is taken to cover key
Get_ExcludedCovers(map, key) == map[NextBack(RangeToInclusive(map, LExcluded(key)))]

\* SpanMap::get: the value set of the last cell keyed <= Included(key)
Get(map, key) == map[NextBack(RangeToInclusive(map, LIncluded(key)))]

\* BTreeSet::iter: the values of the set in ascending order
RECURSIVE SetIter(_)
SetIter(set) ==
    IF set = {} THEN <<>>
    ELSE LET least == CHOOSE x \in set : \A y \in set : x <= y
         IN  <<least>> \o SetIter(set \ {least})

\* ensure_boundary that starts the new cell with an empty set, not a clone
ensure_boundary_NoClone(map, bound) ==
    LET le == RangeToInclusive(map, bound)
    IN  IF le # {} /\ NextBack(le) = bound THEN map ELSE MapInsert(map, bound, {})

\* ensure_boundary that looks up range(..bound), so an existing boundary is
\* not recognised and is overwritten with the set of the cell before it
ensure_boundary_ExclusiveRange(map, bound) ==
    LET lt == {b \in DOMAIN map : LeftCmp(b, bound) = "Less"}
    IN  IF lt # {} THEN MapInsert(map, bound, map[NextBack(lt)])
        ELSE MapInsert(map, bound, {})

\* ensure_boundary with its two branches swapped: a missing boundary is
\* taken for "no need to split"
ensure_boundary_NoSplit(map, bound) ==
    LET le == RangeToInclusive(map, bound)
    IN  IF le # {}
        THEN LET b == NextBack(le)
             IN  IF b = bound THEN MapInsert(map, bound, map[b]) ELSE map
        ELSE MapInsert(map, bound, {})

\* ensure_boundary that clones the set of the first cell at or before bound
\* (next() in place of next_back())
ensure_boundary_CloneFirst(map, bound) ==
    LET le == RangeToInclusive(map, bound)
    IN  IF le # {}
        THEN LET b == NextBack(le)
                 first == CHOOSE c \in le : \A d \in le : LeftCmp(c, d) # "Greater"
             IN  IF b = bound THEN map ELSE MapInsert(map, bound, map[first])
        ELSE MapInsert(map, bound, {})

\* SpanMap::ensure_boundary
ensure_boundary(map, bound) ==
    LET le == RangeToInclusive(map, bound)
    IN  IF le # {}
        THEN LET b == NextBack(le)
             IN  IF b = bound THEN map ELSE MapInsert(map, bound, map[b])
        ELSE MapInsert(map, bound, {})

\* merge_adjacent_left that treats a missing left neighbour as an empty set
merge_adjacent_left_NoNeighbour(map, bound) ==
    LET le == RangeToInclusive(map, bound)
    IN  IF le = {} THEN map
        ELSE LET right_bound == NextBack(le)
                 rest == le \ {right_bound}
                 left_set == IF rest = {} THEN {} ELSE map[NextBack(rest)]
             IN  IF left_set = map[right_bound] THEN MapRemove(map, right_bound) ELSE map

\* merge_adjacent_left that looks up range(..bound): it compares the cell
\* before bound with the one before that and never looks at bound itself
merge_adjacent_left_ExclusiveRange(map, bound) ==
    LET lt == {b \in DOMAIN map : LeftCmp(b, bound) = "Less"}
    IN  IF lt = {} THEN map
        ELSE LET right_bound == NextBack(lt)
                 rest == lt \ {right_bound}
             IN  IF rest = {} THEN map
                 ELSE IF map[NextBack(rest)] = map[right_bound]
                      THEN MapRemove(map, right_bound)
                      ELSE map

\* merge_adjacent_left that removes the left one of the two equal cells
merge_adjacent_left_RemoveLeft(map, bound) ==
    LET le == RangeToInclusive(map, bound)
    IN  IF le = {} THEN map
        ELSE LET right_bound == NextBack(le)
                 rest == le \ {right_bound}
             IN  IF rest = {} THEN map
                 ELSE LET left_bound == NextBack(rest)
                      IN  IF map[left_bound] = map[right_bound]
                          THEN MapRemove(map, left_bound)
                          ELSE map

\* merge_adjacent_left that looks up bound itself and does nothing when bound
\* is not a key
merge_adjacent_left_ExactKey(map, bound) ==
    IF bound \notin DOMAIN map THEN map
    ELSE LET rest == {b \in DOMAIN map : LeftCmp(b, bound) = "Less"}
         IN  IF rest = {} THEN map
             ELSE IF map[NextBack(rest)] = map[bound] THEN MapRemove(map, bound)
             ELSE map

\* SpanMap::merge_adjacent_left
merge_adjacent_left(map, bound) ==
    LET le == RangeToInclusive(map, bound)
    IN  IF le = {} THEN map
        ELSE LET right_bound == NextBack(le)
                 rest == le \ {right_bound}
             IN  IF rest = {} THEN map
                 ELSE LET left_bound == NextBack(rest)
                      IN  IF map[left_bound] = map[right_bound]
                          THEN MapRemove(map, right_bound)
                          ELSE map

\* The closure of remove_span copied from insert_span: it inserts too
ApplyF_AlwaysInsert(f, value, set) == set \cup {value}

\* The closure f passed by insert_span / remove_span
ApplyF(f, value, set) == IF f = "insert" THEN set \cup {value} ELSE set \ {value}

\* The loop breaking on span.right <= b instead of span.right < b
Visited_BreakOnEqual(map, span) ==
    LET from == RangeFrom(map, span.left)
    IN  {b \in from : \A c \in from :
            LeftCmp(c, b) # "Greater" => RightCmpLeft(span.right, c) = "Greater"}

\* The loop without its break: every key from span.left on is updated
Visited_NoBreak(map, span) == RangeFrom(map, span.left)

\* The loop running over range_mut(..) with its break: the cells before
\* span.left are updated too
Visited_FromFirstKey(map, span) ==
    {b \in DOMAIN map : \A c \in DOMAIN map :
        LeftCmp(c, b) # "Greater" => RightCmpLeft(span.right, c) # "Less"}

\* The loop of update_set_in_span: the keys of range_mut(span.left..) taken
\* in ascending order up to, not including, the first one with span.right < b
Visited(map, span) ==
    LET from == RangeFrom(map, span.left)
    IN  {b \in from : \A c \in from :
            LeftCmp(c, b) # "Greater" => RightCmpLeft(span.right, c) # "Less"}

\* update_set_in_span without the merge at span.left
update_set_in_span_NoMergeStart(map, span, f, value) ==
    LET end == adjacent_left(span.right)
        m1 == ensure_boundary(map, span.left)
        m2 == IF end # {} THEN ensure_boundary(m1, CHOOSE e \in end : TRUE) ELSE m1
        vis == Visited(m2, span)
        m3 == [b \in DOMAIN m2 |-> IF b \in vis THEN ApplyF(f, value, m2[b]) ELSE m2[b]]
    IN  IF end # {} THEN merge_adjacent_left(m3, CHOOSE e \in end : TRUE) ELSE m3

\* update_set_in_span without the merge at adjacent_left(span.right)
update_set_in_span_NoMergeEnd(map, span, f, value) ==
    LET end == adjacent_left(span.right)
        m1 == ensure_boundary(map, span.left)
        m2 == IF end # {} THEN ensure_boundary(m1, CHOOSE e \in end : TRUE) ELSE m1
        vis == Visited(m2, span)
        m3 == [b \in DOMAIN m2 |-> IF b \in vis THEN ApplyF(f, value, m2[b]) ELSE m2[b]]
    IN  merge_adjacent_left(m3, span.left)

\* update_set_in_span that also splits at the right edge itself, not only at
\* the edge adjacent to it
update_set_in_span_ExtraSplit(map, span, f, value) ==
    LET end == adjacent_left(span.right)
        m1 == ensure_boundary(map, span.left)
        m2 == IF end # {}
              THEN ensure_boundary(
                       ensure_boundary(m1, [side |-> "L", kind |-> span.right.kind, t |-> span.right.t]),
                       CHOOSE e \in end : TRUE)
              ELSE m1
        vis == Visited(m2, span)
        m3 == [b \in DOMAIN m2 |-> IF b \in vis THEN ApplyF(f, value, m2[b]) ELSE m2[b]]
        m4 == merge_adjacent_left(m3, span.left)
    IN  IF end # {} THEN merge_adjacent_left(m4, CHOOSE e \in end : TRUE) ELSE m4

\* update_set_in_span without its two merge_adjacent_left calls
update_set_in_span_NoMerge(map, span, f, value) ==
    LET end == adjacent_left(span.right)
        m1 == ensure_boundary(map, span.left)
        m2 == IF end # {} THEN ensure_boundary(m1, CHOOSE e \in end : TRUE) ELSE m1
        vis == Visited(m2, span)
    IN  [b \in DOMAIN m2 |-> IF b \in vis THEN ApplyF(f, value, m2[b]) ELSE m2[b]]

\* update_set_in_span that skips the two merges when the loop updated no cell
update_set_in_span_MergeIfApplied(map, span, f, value) ==
    LET start == span.left
        end == adjacent_left(span.right)
        m1 == ensure_boundary(map, start)
        m2 == IF end # {} THEN ensure_boundary(m1, CHOOSE e \in end : TRUE) ELSE m1
        vis == Visited(m2, span)
        m3 == [b \in DOMAIN m2 |-> IF b \in vis THEN ApplyF(f, value, m2[b]) ELSE m2[b]]
        m4 == merge_adjacent_left(m3, start)
    IN  IF vis = {} THEN m3
        ELSE IF end # {} THEN merge_adjacent_left(m4, CHOOSE e \in end : TRUE) ELSE m4

\* SpanMap::update_set_in_span
update_set_in_span(map, span, f, value) ==
    LET start == span.left
        end == adjacent_left(span.right)
        m1 == ensure_boundary(map, start)
        m2 == IF end # {} THEN ensure_boundary(m1, CHOOSE e \in end : TRUE) ELSE m1
        vis == Visited(m2, span)
        m3 == [b \in DOMAIN m2 |-> IF b \in vis THEN ApplyF(f, value, m2[b]) ELSE m2[b]]
        m4 == merge_adjacent_left(m3, start)
    IN  IF end # {} THEN merge_adjacent_left(m4, CHOOSE e \in end : TRUE) ELSE m4

\* SpanMap::insert_span
insert_span(map, range, value) == update_set_in_span(map, range, "insert", value)

\* SpanMap::remove_span
remove_span(map, range, value) == update_set_in_span(map, range, "remove", value)

\* SpanMap::insert(range, value)
insert(map, range, value) == insert_span(map, from_range(range), value)

\* SpanMap::remove(range, value)
remove(map, range, value) == remove_span(map, from_range(range), value)

\* ------------------------------------------------------- reference coverage
\* k lies in span: span.left <= Included(k) and not Included(k) > span.right
Contains(span, k) ==
    /\ LeftCmp(span.left, LIncluded(k)) # "Greater"
    /\ LeftCmpRight(LIncluded(k), span.right) # "Greater"

\* The reference coverage after a call: only the keys in span change, by f
CovApply(c, span, f, value) ==
    [k \in QueryKeys |-> IF Contains(span, k) THEN ApplyF(f, value, c[k]) ELSE c[k]]

\* ---------------------------------------------------------------- actions
Init ==
    /\ m = new
    /\ cov = [k \in QueryKeys |-> {}]
    /\ prev = new
    /\ last = [op |-> "new", span |-> SpanNew(LUnbounded, RUnbounded), value |-> 0]
    /\ repeat = FALSE
    /\ nops = 0
    /\ edges = <<LUnbounded, LUnbounded, LUnbounded>>
    /\ res = [op |-> "none"]

InsertSpan ==
    \E span \in Spans, value \in Values :
        /\ nops < MaxOps
        /\ m' = insert_span(m, span, value)
        /\ cov' = CovApply(cov, span, "insert", value)
        /\ prev' = m
        /\ last' = [op |-> "insert", span |-> span, value |-> value]
        /\ repeat' = (last = [op |-> "insert", span |-> span, value |-> value])
        /\ nops' = nops + 1
        /\ UNCHANGED edgeVars

RemoveSpan ==
    \E span \in Spans, value \in Values :
        /\ nops < MaxOps
        /\ m' = remove_span(m, span, value)
        /\ cov' = CovApply(cov, span, "remove", value)
        /\ prev' = m
        /\ last' = [op |-> "remove", span |-> span, value |-> value]
        /\ repeat' = (last = [op |-> "remove", span |-> span, value |-> value])
        /\ nops' = nops + 1
        /\ UNCHANGED edgeVars

Next == InsertSpan \/ RemoveSpan

Spec == Init /\ [][Next]_vars

\* ------------------------------------------------------------ claim helpers
\* The coverage function of a map, as seen through get
Coverage(map) == [k \in QueryKeys |-> Get(map, k)]

\* The cell immediately before the cell keyed b, if any
LeftNeighbours(map, b) == {c \in DOMAIN map : LeftCmp(c, b) = "Less" /\
    \A d \in DOMAIN map : LeftCmp(d, b) = "Less" => LeftCmp(d, c) # "Greater"}

\* A span whose left edge is ordered after its right edge in the cross order
Inverted(span) == LeftCmpRight(span.left, span.right) = "Greater"

\* C1: get(k) returns exactly the reference coverage cov(k) for every key k,
\* after any sequence of insert_span / remove_span calls from new().
C1_CoverageRefinement == \A k \in QueryKeys : ~GetPanics(m, k) /\ Get(m, k) = cov[k]

\* C1 witness: overlapping calls left different non-empty coverage at two keys
C1_Witness ==
    /\ nops >= 2
    /\ \E k1, k2 \in QueryKeys : cov[k1] # {} /\ cov[k2] # {} /\ cov[k1] # cov[k2]
    /\ \A k \in QueryKeys : Get(m, k) = cov[k]

\* The last call was an insert_span / a remove_span
LastInsert == last.op = "insert"
LastRemove == last.op = "remove"

\* No two cells adjacent in key order hold equal value sets
Canonical(map) == \A b \in DOMAIN map : \A c \in LeftNeighbours(map, b) : map[c] # map[b]

\* C2: in every reachable state no two cells that are adjacent in key order
\* hold equal value sets.
C2_CanonicalMinimality == Canonical(m)

\* C3: the key Unbounded is present in every reachable state, whatever spans
\* were used (inverted and empty ones included), so the unwrap in get never
\* fails for any key.
C3_UnboundedPresent == LUnbounded \in DOMAIN m /\ \A k \in QueryKeys : ~GetPanics(m, k)

\* C3 witness: a remove over a span starting at Unbounded emptied the Unbounded
\* cell, so merge_adjacent_left ran on the first key while it held the empty
\* set, and Unbounded is still a key next to other cells
C3_Witness ==
    /\ LastRemove /\ last.span.left = LUnbounded
    /\ prev[LUnbounded] # {} /\ m[LUnbounded] = {}
    /\ Cardinality(DOMAIN m) > 1
    /\ LUnbounded \in DOMAIN m

\* C4: after insert_span(S, v) the value v is returned by get(k) for every key
\* k contained in S; a key equal to an Excluded endpoint of S is left as it was,
\* a key equal to an Included endpoint of a span with left <= right gets v, and
\* for a single-point span [p, p] exactly the key p is affected.
C4_InsertPost ==
    LastInsert =>
        LET S == last.span
            v == last.value
        IN  /\ \A k \in QueryKeys : Contains(S, k) => v \in Get(m, k)
            /\ \A k \in QueryKeys :
                   (\/ (S.left.kind = "Excluded" /\ S.left.t = k)
                    \/ (S.right.kind = "Excluded" /\ S.right.t = k))
                   => ((v \in Get(m, k)) <=> (v \in Get(prev, k)))
            /\ \A k \in QueryKeys :
                   (/\ ~Inverted(S)
                    /\ \/ (S.left.kind = "Included" /\ S.left.t = k)
                       \/ (S.right.kind = "Included" /\ S.right.t = k))
                   => v \in Get(m, k)
            /\ \A p \in EdgeVals :
                   (S.left = LIncluded(p) /\ S.right = RIncluded(p))
                   => \A k \in QueryKeys :
                          Get(m, k) = IF k = p THEN Get(prev, k) \cup {v} ELSE Get(prev, k)

\* C4 witness: an insert over (a, b] made v newly visible at a key inside and at
\* the Included end b, and left the key at the Excluded end a without v
C4_Witness ==
    /\ LastInsert
    /\ last.span.left.kind = "Excluded" /\ last.span.right.kind = "Included"
    /\ last.value \notin Get(m, last.span.left.t)
    /\ last.value \in Get(m, last.span.right.t)
    /\ last.value \notin Get(prev, last.span.right.t)
    /\ \E k \in QueryKeys : /\ Contains(last.span, k) /\ k # last.span.right.t
                            /\ last.value \in Get(m, k) /\ last.value \notin Get(prev, k)

\* C5: after remove_span(S, v) the value v is not returned by get(k) for any
\* key k contained in S.
C5_RemovePost ==
    LastRemove => \A k \in QueryKeys : Contains(last.span, k) => last.value \notin Get(m, k)

\* C5 witness: a remove took v away at a key inside S while v stays visible at
\* a key outside S
C5_Witness ==
    /\ LastRemove
    /\ \E k \in QueryKeys : /\ Contains(last.span, k)
                            /\ last.value \in Get(prev, k) /\ last.value \notin Get(m, k)
    /\ \E k \in QueryKeys : ~Contains(last.span, k) /\ last.value \in Get(m, k)

\* C6: insert_span(S, v) / remove_span(S, v) leaves get(k) unchanged for every
\* key k not contained in S, and for every key k leaves the membership of
\* every value w # v in get(k) unchanged.
C6_Frame ==
    (LastInsert \/ LastRemove) =>
        \A k \in QueryKeys :
            /\ ~Contains(last.span, k) => Get(m, k) = Get(prev, k)
            /\ \A w \in Values \ {last.value} : (w \in Get(m, k)) <=> (w \in Get(prev, k))

\* C6 witness: the call changed get at a key inside S that also holds another
\* value w, while a key outside S holds v and w both before and after
C6_Witness ==
    /\ LastInsert \/ LastRemove
    /\ \E k \in QueryKeys :
           /\ Contains(last.span, k) /\ Get(m, k) # Get(prev, k)
           /\ \E w \in Values \ {last.value} : w \in Get(m, k)
    /\ \E k \in QueryKeys :
           /\ ~Contains(last.span, k) /\ Get(m, k) = Get(prev, k)
           /\ last.value \in Get(m, k) /\ Get(m, k) # {last.value}

\* C7: two reachable maps (the map before a call and the map after it) are
\* structurally equal if and only if they have the same coverage function.
C7_UniqueRepresentation == (m = prev) <=> (Coverage(m) = Coverage(prev))

\* C8: insert_span(S, v) performed twice in a row gives the same get(k) for
\* every key k as performing it once.
C8_InsertIdempotentCoverage ==
    (repeat /\ LastInsert) => \A k \in QueryKeys : Get(m, k) = Get(prev, k)

\* C8 witness: the second of two identical inserts over a span that contains a
\* key but not every key, on a map that also holds another value
C8_Witness ==
    /\ repeat /\ LastInsert
    /\ \E k \in QueryKeys : Contains(last.span, k) /\ Get(m, k) # {last.value}
    /\ \E k \in QueryKeys : ~Contains(last.span, k) /\ last.value \notin Get(m, k)

\* C9: when get(k) already contains v for every key k contained in S,
\* insert_span(S, v) leaves the map structurally equal to the map before.
C9_InsertNoOp ==
    (LastInsert /\ \A k \in QueryKeys : Contains(last.span, k) => last.value \in Get(prev, k))
        => m = prev

\* C10: when get(k) does not contain v for any key k contained in S,
\* remove_span(S, v) leaves the map structurally equal to the map before.
C10_RemoveNoOp ==
    (LastRemove /\ \A k \in QueryKeys : Contains(last.span, k) => last.value \notin Get(prev, k))
        => m = prev

\* C11: on the empty map remove_span(S, v), for any span and value, leaves
\* exactly one cell, Unbounded -> empty set, and get(k) is empty for every k.
C11_RemoveOnEmpty ==
    (nops = 1 /\ LastRemove) =>
        /\ DOMAIN m = {LUnbounded}
        /\ m[LUnbounded] = {}
        /\ \A k \in QueryKeys : Get(m, k) = {}

\* C11 witness: the first call was a remove over a span, bounded on both
\* sides with left <= right, whose two boundaries had to be split and merged
C11_Witness ==
    /\ nops = 1 /\ LastRemove /\ prev = new
    /\ last.span.left.kind # "Unbounded" /\ last.span.right.kind # "Unbounded"
    /\ ~Inverted(last.span)
    /\ Cardinality(DOMAIN ensure_boundary(prev, last.span.left)) = 2
    /\ m = new

\* S2 starts right after S1 ends: S2.left == adjacent_left(S1.right)
Adjacent(S1, S2) == adjacent_left(S1.right) = {S2.left}

\* C12: from the empty map, for spans S1 and S2 with left <= right each and
\* S2.left == adjacent_left(S1.right), inserting v over S1 and then over S2, or
\* in the opposite order, yields the map of the single call
\* insert_span(Span(S1.left, S2.right), v), with no boundary key at S2.left.
C12_AdjacentMerge ==
    (nops = 2 /\ LastInsert) =>
        \A S \in Spans :
            (/\ ~Inverted(S) /\ ~Inverted(last.span)
             /\ prev = insert_span(new, S, last.value)
             /\ (Adjacent(S, last.span) \/ Adjacent(last.span, S)))
            => LET S1 == IF Adjacent(S, last.span) THEN S ELSE last.span
                   S2 == IF Adjacent(S, last.span) THEN last.span ELSE S
               IN  /\ m = insert_span(new, SpanNew(S1.left, S2.right), last.value)
                   /\ S2.left \notin DOMAIN m

\* C12 witness: the second insert put v over the span adjacent on the left of
\* the first one (the opposite order), and the boundary between them is gone
C12_Witness ==
    /\ nops = 2 /\ LastInsert /\ ~Inverted(last.span)
    /\ \E S \in Spans :
           /\ ~Inverted(S) /\ prev = insert_span(new, S, last.value)
           /\ Adjacent(last.span, S)
           /\ S.left \in DOMAIN prev /\ S.left \notin DOMAIN m
           /\ Cardinality(DOMAIN m) = 3

\* C12 witness, first order: the second insert is the span adjacent on the right
C12_WitnessForward ==
    /\ nops = 2 /\ LastInsert /\ ~Inverted(last.span)
    /\ \E S \in Spans :
           /\ ~Inverted(S) /\ prev = insert_span(new, S, last.value)
           /\ Adjacent(S, last.span)
           /\ last.span.left \in DOMAIN prev /\ last.span.left \notin DOMAIN m

\* C13: from the empty map, insert_span(S, v) followed by remove_span(S, v)
\* yields a map equal to new(), for any span S; S.left and
\* adjacent_left(S.right) are no longer keys (Unbounded aside).
C13_RoundTrip ==
    (nops = 2 /\ LastRemove /\ prev = insert_span(new, last.span, last.value)) =>
        /\ m = new
        /\ \A b \in {last.span.left} \cup adjacent_left(last.span.right) :
               b # LUnbounded => b \notin DOMAIN m

\* C13 witness: the insert had created both boundaries of a bounded span and
\* made v visible, and the remove took them away again
C13_Witness ==
    /\ nops = 2 /\ LastRemove /\ prev = insert_span(new, last.span, last.value)
    /\ Cardinality(DOMAIN prev) = 3
    /\ \E k \in QueryKeys : last.value \in Get(prev, k)
    /\ m = new

\* The cells insert_span(S, v) is to leave on the empty map: S.left -> {v},
\* adjacent_left(S.right) -> {} when S.right is bounded, and Unbounded -> {}
\* when S.left is not Unbounded
ExpectedCells(S, v) ==
    LET keys == {S.left} \cup adjacent_left(S.right) \cup {LUnbounded}
    IN  [b \in keys |-> IF b = S.left THEN {v} ELSE {}]

\* C14: insert_span(S, v) on new(), for a span with left <= right, yields
\* exactly the cells S.left -> {v}, adjacent_left(S.right) -> {} (S.right
\* bounded) and Unbounded -> {} (S.left not Unbounded): 3, 2 or 1 cells.
C14_InsertOnEmpty ==
    (nops = 1 /\ LastInsert /\ ~Inverted(last.span)) =>
        /\ m = ExpectedCells(last.span, last.value)
        /\ Cardinality(DOMAIN m) =
               1 + (IF last.span.left.kind # "Unbounded" THEN 1 ELSE 0)
                 + (IF last.span.right.kind # "Unbounded" THEN 1 ELSE 0)

\* C14 witness: the first call inserted over a single-point span [p, p] and
\* left the three cells Unbounded -> {}, Included(p) -> {v}, Excluded(p) -> {}
C14_Witness ==
    /\ nops = 1 /\ LastInsert
    /\ \E p \in EdgeVals :
           /\ last.span = SpanNew(LIncluded(p), RIncluded(p))
           /\ DOMAIN m = {LUnbounded, LIncluded(p), LExcluded(p)}
           /\ m[LIncluded(p)] = {last.value} /\ m[LExcluded(p)] = {} /\ m[LUnbounded] = {}

\* C15: for a span whose left edge is ordered after its right edge
\* (inverted or empty), insert_span and remove_span complete without failure
\* and leave get(k) unchanged for every key k.
C15_DegenerateNoOp ==
    ((LastInsert \/ LastRemove) /\ Inverted(last.span)) =>
        \A k \in QueryKeys : ~GetPanics(m, k) /\ Get(m, k) = Get(prev, k)

\* C15 witness: a span inverted across two values (right edge value below
\* the left edge value) was applied to a map that holds different non-empty
\* sets at those two keys, and the coverage is what it was
C15_Witness ==
    /\ LastInsert \/ LastRemove
    /\ Inverted(last.span)
    /\ last.span.left.kind # "Unbounded" /\ last.span.right.kind # "Unbounded"
    /\ last.span.left.t > last.span.right.t
    /\ Get(prev, last.span.left.t) # {} /\ Get(prev, last.span.right.t) # {}
    /\ Get(prev, last.span.left.t) # Get(prev, last.span.right.t)
    /\ Coverage(m) = Coverage(prev)

\* C16: each call increases the number of cells by at most 2, so after n
\* calls from the empty map there are at most 1 + 2n cells.
C16_CellGrowth ==
    /\ Cardinality(DOMAIN m) <= Cardinality(DOMAIN prev) + 2
    /\ Cardinality(DOMAIN m) <= 1 + 2 * nops

\* C16 witness: two calls in a row each added two cells
C16_Witness ==
    /\ nops = 2
    /\ Cardinality(DOMAIN prev) = 3
    /\ Cardinality(DOMAIN m) = 5

\* The map of update_set_in_span when its loop starts: after ensure_boundary
\* at span.left and at adjacent_left(span.right)
AfterSplit(map, span) ==
    LET end == adjacent_left(span.right)
        m1 == ensure_boundary(map, span.left)
    IN  IF end # {} THEN ensure_boundary(m1, CHOOSE e \in end : TRUE) ELSE m1

\* C29: the apply step of a call updates exactly the cells with a key b such
\* that span.left <= b and not span.right < b, and no other cell.  When left
\* <= right these are the cells keyed in [span.left, adjacent_left(span.right)),
\* all cells from span.left on when span.right is Unbounded; for an inverted
\* span they are no cell at all.
C29_ApplyRange ==
    (LastInsert \/ LastRemove) =>
        LET span == last.span
            end == adjacent_left(span.right)
            m2 == AfterSplit(prev, span)
            vis == Visited(m2, span)
            inRange == {b \in DOMAIN m2 :
                           /\ LeftCmp(span.left, b) # "Greater"
                           /\ RightCmpLeft(span.right, b) # "Less"}
        IN  /\ vis = inRange
            /\ ~Inverted(span) =>
                   vis = {b \in DOMAIN m2 :
                             /\ LeftCmp(span.left, b) # "Greater"
                             /\ \A e \in end : LeftCmp(b, e) = "Less"}
            /\ Inverted(span) => vis = {}
            /\ \A b \in DOMAIN m :
                   m[b] = IF b \in inRange THEN ApplyF(last.op, last.value, m2[b]) ELSE m2[b]

\* C29 witness: a call over a bounded span updated two cells, the one at
\* span.left and one strictly inside the span, and left a cell before and a
\* cell after the span as they were
C29_Witness ==
    /\ LastInsert
    /\ ~Inverted(last.span) /\ last.span.right.kind # "Unbounded"
    /\ LET m2 == AfterSplit(prev, last.span)
           vis == Visited(m2, last.span)
       IN  /\ Cardinality(vis) = 2
           /\ \A b \in vis : last.value \notin m2[b] /\ b \in DOMAIN m /\ last.value \in m[b]
           /\ \E b \in DOMAIN m2 \ vis : LeftCmp(b, last.span.left) = "Less" /\ m2[b] # {}
           /\ \E b \in DOMAIN m2 \ vis : LeftCmp(b, last.span.left) = "Greater"

\* C30: a call removes no boundary key other than span.left and
\* adjacent_left(span.right): every key of the map before the call, and every
\* key the call adds, other than these two is a key of the map after it.
C30_MergeOnlyOwnBoundaries ==
    (LastInsert \/ LastRemove) =>
        (DOMAIN AfterSplit(prev, last.span)) \ (DOMAIN m)
            \subseteq ({last.span.left} \cup adjacent_left(last.span.right))

\* The property of C30 on calls made on a map with no two adjacent equal cells
C30_OnCanonical == Canonical(prev) => C30_MergeOnlyOwnBoundaries

\* A call over a span whose two boundaries are the same key removed that key
\* and the key before it
C30_RemovedOtherKey ==
    /\ LastInsert \/ LastRemove
    /\ adjacent_left(last.span.right) = {last.span.left}
    /\ last.span.left \notin DOMAIN m
    /\ \E b \in DOMAIN prev : b # last.span.left /\ b \notin DOMAIN m

\* C31: right after every insert_span / remove_span call, if span.left is
\* still a key of the map its value set differs from the set of its immediate
\* left neighbour, and the same holds for adjacent_left(span.right) when
\* span.right is bounded.
C31_LocalCanonical ==
    (LastInsert \/ LastRemove) =>
        \A b \in {last.span.left} \cup adjacent_left(last.span.right) :
            b \in DOMAIN m => \A c \in LeftNeighbours(m, b) : m[c] # m[b]

\* C31 witness: a call over a bounded span on a map that already had both
\* boundaries as keys kept both, each with a set unlike its left neighbour's
C31_Witness ==
    /\ LastRemove
    /\ last.span.left # LUnbounded
    /\ \E e \in adjacent_left(last.span.right) :
        /\ e # last.span.left
        /\ {last.span.left, e} \subseteq DOMAIN prev
        /\ {last.span.left, e} \subseteq DOMAIN m
        /\ m # prev
        /\ \A b \in {last.span.left, e} : \E c \in LeftNeighbours(m, b) : m[c] # m[b]

\* The key b lies outside the boundaries of span: strictly before span.left
\* or strictly after adjacent_left(span.right)
OutsideBoundaries(span, b) ==
    \/ LeftCmp(b, span.left) = "Less"
    \/ \E e \in adjacent_left(span.right) : LeftCmp(b, e) = "Greater"

\* Every entry outside the boundaries of the last call's span is as it was
FrameOutside ==
    /\ \A b \in DOMAIN prev :
           OutsideBoundaries(last.span, b) => b \in DOMAIN m /\ m[b] = prev[b]
    /\ \A b \in DOMAIN m : OutsideBoundaries(last.span, b) => b \in DOMAIN prev

\* The last call's span has left <= right, a bounded right edge, and fell
\* strictly inside one cell of the map before the call: neither boundary was
\* a key and no key lay between them
StrictlyInsideOneCell ==
    /\ ~Inverted(last.span)
    /\ last.span.left \notin DOMAIN prev
    /\ \E e \in adjacent_left(last.span.right) :
        /\ e \notin DOMAIN prev
        /\ \A b \in DOMAIN prev : LeftCmp(b, last.span.left) = "Less" \/ LeftCmp(b, e) = "Greater"

\* The key of the cell of the map before the call that covers span.left
CoveringKey == NextBack(RangeToInclusive(prev, last.span.left))

\* After the call the covering cell keeps its set, span.left carries the
\* updated set and adjacent_left(span.right) the original set
SplitInThree ==
    /\ CoveringKey \in DOMAIN m /\ m[CoveringKey] = prev[CoveringKey]
    /\ last.span.left \in DOMAIN m
    /\ m[last.span.left] = ApplyF(last.op, last.value, prev[CoveringKey])
    /\ \A e \in adjacent_left(last.span.right) : e \in DOMAIN m /\ m[e] = prev[CoveringKey]

\* C32: for a span with left <= right, insert_span / remove_span leaves every
\* entry whose key is strictly less than span.left or strictly greater than
\* adjacent_left(span.right) as it was; for a call falling strictly inside
\* one cell the cell's key keeps its set and the two new keys span.left and
\* adjacent_left(span.right) carry the updated and the original set.
C32_StructuralFrame ==
    ((LastInsert \/ LastRemove) /\ ~Inverted(last.span)) =>
        /\ FrameOutside
        /\ StrictlyInsideOneCell => SplitInThree

\* C32, with the case of an update that changes nothing: as C32 when the
\* call changes the set of the cell it falls in; when it does not (the value
\* is already there, or already absent), the map is left as it was and the
\* two keys are not created.
C32_FrameWhenChanged ==
    ((LastInsert \/ LastRemove) /\ ~Inverted(last.span)) =>
        /\ FrameOutside
        /\ StrictlyInsideOneCell =>
               IF ApplyF(last.op, last.value, prev[CoveringKey]) # prev[CoveringKey]
               THEN SplitInThree
               ELSE m = prev

\* C32 witness: a remove strictly inside a cell holding the value left three
\* cells where there was one, next to an untouched cell before them
C32_Witness ==
    /\ LastRemove
    /\ StrictlyInsideOneCell
    /\ CoveringKey # LUnbounded
    /\ last.value \in prev[CoveringKey]
    /\ SplitInThree
    /\ Cardinality(DOMAIN m) = Cardinality(DOMAIN prev) + 2

\* C33: on a map with no two adjacent cells holding equal sets, insert_span
\* or remove_span with a span whose left edge is ordered after its right edge
\* leaves the map with the same keys and the same sets: the keys created by
\* ensure_boundary are removed again and no earlier key is removed.
C33_InvertedOnCanonical ==
    ((LastInsert \/ LastRemove) /\ Inverted(last.span) /\ Canonical(prev)) => m = prev

\* C33 witness: an inverted span on a canonical map of three cells or more,
\* for which ensure_boundary created two keys, and the map is as before
C33_Witness ==
    /\ LastInsert \/ LastRemove
    /\ Inverted(last.span)
    /\ Canonical(prev)
    /\ Cardinality(DOMAIN prev) >= 3
    /\ Cardinality(DOMAIN AfterSplit(prev, last.span)) = Cardinality(DOMAIN prev) + 2
    /\ m = prev

\* ------------------------------------------------------- range-based calls
\* The calls that take a range, and get: each records its arguments and, for
\* get, the values the returned iterator yields
Insert ==
    \E range \in Ranges, value \in Values :
        /\ nops < MaxOps
        /\ m' = insert(m, range, value)
        /\ cov' = CovApply(cov, from_range(range), "insert", value)
        /\ prev' = m
        /\ last' = [op |-> "insert", span |-> from_range(range), value |-> value]
        /\ repeat' = (last = [op |-> "insert", span |-> from_range(range), value |-> value])
        /\ nops' = nops + 1
        /\ res' = [op |-> "insert", range |-> range, value |-> value]
        /\ UNCHANGED edges

Remove ==
    \E range \in Ranges, value \in Values :
        /\ nops < MaxOps
        /\ m' = remove(m, range, value)
        /\ cov' = CovApply(cov, from_range(range), "remove", value)
        /\ prev' = m
        /\ last' = [op |-> "remove", span |-> from_range(range), value |-> value]
        /\ repeat' = (last = [op |-> "remove", span |-> from_range(range), value |-> value])
        /\ nops' = nops + 1
        /\ res' = [op |-> "remove", range |-> range, value |-> value]
        /\ UNCHANGED edges

GetKey ==
    \E key \in QueryKeys :
        /\ nops < MaxOps
        /\ res' = IF GetPanics(m, key) THEN [op |-> "panic", key |-> key]
                  ELSE [op |-> "get", key |-> key, out |-> SetIter(Get(m, key))]
        /\ prev' = m
        /\ last' = [op |-> "get", key |-> key]
        /\ repeat' = FALSE
        /\ nops' = nops + 1
        /\ UNCHANGED <<m, cov, edges>>

RangeNext == Insert \/ Remove \/ GetKey

RangeSpec == Init /\ [][RangeNext]_vars

ExpectedSpan(range) ==
    CASE range.type = "Range" -> SpanNew(LIncluded(range.start), RExcluded(range.end))
      [] range.type = "RangeInclusive" -> SpanNew(LIncluded(range.start), RIncluded(range.end))
      [] range.type = "RangeFrom" -> SpanNew(LIncluded(range.start), RUnbounded)
      [] range.type = "RangeTo" -> SpanNew(LUnbounded, RExcluded(range.end))
      [] range.type = "RangeToInclusive" -> SpanNew(LUnbounded, RIncluded(range.end))
      [] range.type = "RangeFull" -> SpanNew(LUnbounded, RUnbounded)
      [] range.type = "Pair" ->
            SpanNew([side |-> "L", kind |-> range.start.kind, t |-> range.start.t],
                    [side |-> "R", kind |-> range.end.kind, t |-> range.end.t])

\* C28: insert(range, v) and remove(range, v) leave the map that insert_span
\* and remove_span leave with the span lowered from the range: a..b is [a, b),
\* a..=b is [a, b], a.. is [a, +inf), ..b is (-inf, b), ..=b is (-inf, b].
C28_RangeLowering ==
    /\ res.op = "insert" => m = insert_span(prev, ExpectedSpan(res.range), res.value)
    /\ res.op = "remove" => m = remove_span(prev, ExpectedSpan(res.range), res.value)

\* C28 witness: insert(a..b, v) on the empty map left the cells of [a, b),
\* and not those of [a, b]
C28_Witness ==
    /\ res.op = "insert" /\ res.range.type = "Range" /\ res.range.start < res.range.end
    /\ prev = new
    /\ DOMAIN m = {LUnbounded, LIncluded(res.range.start), LIncluded(res.range.end)}
    /\ m[LIncluded(res.range.start)] = {res.value}

\* ------------------------------------------------- the same call twice
\* A map is built by insert_span / remove_span calls whose arguments are not
\* kept; then one call is made twice in a row on it.  prev is the map before
\* the two calls, res holds the call and the map after the first of the two.
Call ==
    \E f \in {"insert", "remove"}, span \in Spans, value \in Values :
        /\ res.op = "none"
        /\ nops < MaxOps
        /\ m' = update_set_in_span(m, span, f, value)
        /\ cov' = CovApply(cov, span, f, value)
        /\ nops' = nops + 1
        /\ UNCHANGED <<prev, last, repeat, edgeVars>>

CallTwice ==
    \E f \in {"insert", "remove"}, span \in Spans, value \in Values :
        /\ res.op = "none"
        /\ LET once == update_set_in_span(m, span, f, value)
           IN  /\ m' = update_set_in_span(once, span, f, value)
               /\ res' = [op |-> "twice", f |-> f, span |-> span, value |-> value, once |-> once]
        /\ cov' = CovApply(CovApply(cov, span, f, value), span, f, value)
        /\ prev' = m
        /\ nops' = nops + 2
        /\ UNCHANGED <<last, repeat, edges>>

TwiceNext == Call \/ CallTwice

TwiceSpec == Init /\ [][TwiceNext]_vars

\* C34: in any reachable map, canonical or not, for any span with left <=
\* right and any value, insert_span(S, v) made twice in a row leaves the map
\* equal to the map after making it once, and so does remove_span(S, v).
C34_StructuralIdempotence ==
    (res.op = "twice" /\ ~Inverted(res.span)) => m = res.once

\* C34 witness: the call was made twice on a map with two adjacent equal
\* cells, built by three earlier calls; the first of the two changed the map
\* and the second left it as the first did
C34_Witness ==
    /\ res.op = "twice" /\ ~Inverted(res.span)
    /\ nops = MaxOps + 2
    /\ ~Canonical(prev)
    /\ res.once # prev
    /\ Cardinality(DOMAIN res.once) >= 3
    /\ m = res.once

\* ------------------------------------------------- boundaries of all calls
\* The boundaries span.left and adjacent_left(span.right) of a span
BoundariesOf(span) == {span.left} \cup adjacent_left(span.right)

\* The boundaries of the calls made so far, kept in res
Made == IF res.op = "calls" THEN res.made ELSE {}

\* An insert_span / remove_span call; res collects the boundaries of the
\* spans of all calls
TrackedCall ==
    \E f \in {"insert", "remove"}, span \in Spans, value \in Values :
        /\ nops < MaxOps
        /\ m' = update_set_in_span(m, span, f, value)
        /\ cov' = CovApply(cov, span, f, value)
        /\ prev' = m
        /\ nops' = nops + 1
        /\ res' = [op |-> "calls", made |-> Made \cup BoundariesOf(span)]
        /\ UNCHANGED <<last, repeat, edges>>

TrackedNext == TrackedCall

TrackedSpec == Init /\ [][TrackedNext]_vars

\* C35: in every reachable state each key of the map other than Unbounded is
\* span.left or adjacent_left(span.right) of some earlier insert_span /
\* remove_span call.
C35_BoundaryProvenance ==
    \A b \in DOMAIN m : b = LUnbounded \/ b \in Made

\* C35 witness: three calls left three keys besides Unbounded, all of them
\* boundaries of the calls, and merged away another boundary of a call
C35_Witness ==
    /\ nops = 3
    /\ Cardinality(DOMAIN m) = 4
    /\ (DOMAIN m) \ {LUnbounded} \subseteq Made
    /\ \E b \in Made : b # LUnbounded /\ b \notin DOMAIN m

\* ------------------------------------------- update_set_in_span by steps
\* One insert_span / remove_span call taken statement by statement.  last is
\* the call, res.op the statement just executed, res.from the map when the
\* call started, res.bound the argument of ensure_boundary or
\* merge_adjacent_left, and prev the map before the statement.
CallDone ==
    \/ res.op \in {"none", "merge_end"}
    \/ res.op = "merge_start" /\ adjacent_left(last.span.right) = {}

\* self.ensure_boundary(start), the first statement of a new call
EnsureStart ==
    \E f \in {"insert", "remove"}, span \in Spans, value \in Values :
        /\ CallDone
        /\ nops < MaxOps
        /\ last' = [op |-> f, span |-> span, value |-> value]
        /\ nops' = nops + 1
        /\ prev' = m
        /\ m' = ensure_boundary(m, span.left)
        /\ res' = [op |-> "ensure_start", from |-> m, bound |-> span.left,
                   noKey |-> (RangeToInclusive(m, span.left) = {})]
        /\ UNCHANGED <<cov, repeat, edges>>

\* if let Some(end) = end { self.ensure_boundary(end) }
EnsureEnd ==
    \E end \in adjacent_left(last.span.right) :
        /\ res.op = "ensure_start"
        /\ prev' = m
        /\ m' = ensure_boundary(m, end)
        /\ res' = [op |-> "ensure_end", from |-> res.from, bound |-> end,
                   noKey |-> (RangeToInclusive(m, end) = {})]
        /\ UNCHANGED <<cov, last, repeat, nops, edges>>

\* for (b, set) in self.m.range_mut(span.left..) { .. f(set) }
Apply ==
    /\ \/ res.op = "ensure_end"
       \/ res.op = "ensure_start" /\ adjacent_left(last.span.right) = {}
    /\ prev' = m
    /\ m' = [b \in DOMAIN m |->
                IF b \in Visited(m, last.span) THEN ApplyF(last.op, last.value, m[b]) ELSE m[b]]
    /\ cov' = CovApply(cov, last.span, last.op, last.value)
    /\ res' = [op |-> "apply", from |-> res.from]
    /\ UNCHANGED <<last, repeat, nops, edges>>

\* self.merge_adjacent_left(start)
MergeStart ==
    /\ res.op = "apply"
    /\ prev' = m
    /\ m' = merge_adjacent_left(m, last.span.left)
    /\ res' = [op |-> "merge_start", from |-> res.from, bound |-> last.span.left]
    /\ UNCHANGED <<cov, last, repeat, nops, edges>>

\* if let Some(end) = end { self.merge_adjacent_left(end) }
MergeEnd ==
    \E end \in adjacent_left(last.span.right) :
        /\ res.op = "merge_start"
        /\ prev' = m
        /\ m' = merge_adjacent_left(m, end)
        /\ res' = [op |-> "merge_end", from |-> res.from, bound |-> end]
        /\ UNCHANGED <<cov, last, repeat, nops, edges>>

StepNext == EnsureStart \/ EnsureEnd \/ Apply \/ MergeStart \/ MergeEnd

StepSpec == Init /\ [][StepNext]_vars

\* The statements of a call compose to update_set_in_span
StepsCompose ==
    (CallDone /\ res.op # "none") =>
        m = update_set_in_span(res.from, last.span, last.op, last.value)

\* The greatest key of map at or before b
GreatestAtOrBefore(map, b) ==
    CHOOSE c \in DOMAIN map :
        /\ LeftCmp(c, b) # "Greater"
        /\ \A d \in DOMAIN map : LeftCmp(d, b) # "Greater" => LeftCmp(d, c) # "Greater"

\* C36: after ensure_boundary(b), b is a key whose set equals the set of the
\* cell that covered b before (the greatest key <= b); every entry present
\* before keeps its key and set; the number of cells grows by one if b was
\* not a key and by zero if it was; get(k) is unchanged for every key k; and
\* the branch for no key <= b is never taken in a reachable state.
C36_EnsureBoundarySplits ==
    res.op \in {"ensure_start", "ensure_end"} =>
        /\ ~res.noKey
        /\ res.bound \in DOMAIN m
        /\ m[res.bound] = prev[GreatestAtOrBefore(prev, res.bound)]
        /\ \A b \in DOMAIN prev : b \in DOMAIN m /\ m[b] = prev[b]
        /\ Cardinality(DOMAIN m) =
               Cardinality(DOMAIN prev) + (IF res.bound \in DOMAIN prev THEN 0 ELSE 1)
        /\ \A k \in QueryKeys : Get(m, k) = Get(prev, k)

\* C36 witness: ensure_boundary(b) for a b that was not a key, covered by a
\* cell other than the first one and holding a non-empty set
C36_Witness ==
    /\ res.op \in {"ensure_start", "ensure_end"}
    /\ res.bound \notin DOMAIN prev
    /\ GreatestAtOrBefore(prev, res.bound) # LUnbounded
    /\ prev[GreatestAtOrBefore(prev, res.bound)] # {}
    /\ prev[GreatestAtOrBefore(prev, res.bound)] # prev[LUnbounded]
    /\ m[res.bound] = prev[GreatestAtOrBefore(prev, res.bound)]
    /\ Cardinality(DOMAIN m) = Cardinality(DOMAIN prev) + 1

\* C36 witness for the other case: b was a key already and the map is as it was
C36_WitnessExisting ==
    /\ res.op \in {"ensure_start", "ensure_end"}
    /\ res.bound \in DOMAIN prev /\ res.bound # LUnbounded
    /\ m = prev

\* C37: merge_adjacent_left(b) removes at most one key: the greatest key <= b,
\* exactly when that key has an immediate left neighbour with an equal set;
\* otherwise the map is unchanged.  It never removes Unbounded, changes no
\* value set, and leaves get(k) unchanged for every key k.
C37_MergeRemovesOne ==
    res.op \in {"merge_start", "merge_end"} =>
        LET g == GreatestAtOrBefore(prev, res.bound)
            equalLeft == \E c \in LeftNeighbours(prev, g) : prev[c] = prev[g]
        IN  /\ DOMAIN m = IF equalLeft THEN (DOMAIN prev) \ {g} ELSE DOMAIN prev
            /\ Cardinality((DOMAIN prev) \ (DOMAIN m)) <= 1
            /\ LUnbounded \in DOMAIN m
            /\ \A b \in DOMAIN m : m[b] = prev[b]
            /\ \A k \in QueryKeys : Get(m, k) = Get(prev, k)

\* C37 witness: merge_adjacent_left(b) removed the key b, whose non-empty set
\* equalled that of the cell before it, and kept the other keys
C37_Witness ==
    /\ res.op \in {"merge_start", "merge_end"}
    /\ res.bound \in DOMAIN prev /\ prev[res.bound] # {}
    /\ DOMAIN m = (DOMAIN prev) \ {res.bound}
    /\ Cardinality(DOMAIN m) >= 2

\* C37 witness for a bound that is not a key: the key before it was removed
C37_WitnessOtherKey ==
    /\ res.op = "merge_end"
    /\ res.bound \notin DOMAIN prev
    /\ DOMAIN m # DOMAIN prev

\* C37 witness for the unchanged case: the key b differs from its neighbour
C37_WitnessKept ==
    /\ res.op \in {"merge_start", "merge_end"}
    /\ res.bound \in DOMAIN prev /\ res.bound # LUnbounded
    /\ m = prev

\* ------------------------------------------------------- edge comparisons
\* The comparison of two edges, each a left or a right edge: the impl that
\* the operators <, <=, partial_cmp resolve to for the two types
EdgeCmp(a, b) ==
    IF a.side = "L"
    THEN IF b.side = "L" THEN LeftCmp(a, b) ELSE LeftCmpRight(a, b)
    ELSE IF b.side = "L" THEN RightCmpLeft(a, b) ELSE RightCmp(a, b)

AllEdges == LeftBounds \cup RightBounds

\* The values of Ordering; partial_cmp returning one of them is Some(_)
Orderings == {"Less", "Equal", "Greater"}

EdgeInit ==
    /\ m = new
    /\ cov = [k \in QueryKeys |-> {}]
    /\ prev = new
    /\ last = [op |-> "new", span |-> SpanNew(LUnbounded, RUnbounded), value |-> 0]
    /\ repeat = FALSE
    /\ nops = 0
    /\ edges \in AllEdges \X AllEdges \X AllEdges
    /\ res = [op |-> "none"]

\* A left edge and a right edge compared and tested for equality both ways
CompareCross ==
    /\ res.op = "none"
    /\ edges[1].side = "L" /\ edges[2].side = "R"
    /\ res' = [op |-> "cross",
               lr |-> LeftCmpRight(edges[1], edges[2]),
               rl |-> RightCmpLeft(edges[2], edges[1]),
               eq_lr |-> LeftEqRight(edges[1], edges[2]),
               eq_rl |-> RightEqLeft(edges[2], edges[1])]
    /\ UNCHANGED <<edges, mapVars>>

\* The three comparisons along a chain of three edges of any sides
CompareChain ==
    /\ res.op = "none"
    /\ res' = [op |-> "chain",
               xy |-> EdgeCmp(edges[1], edges[2]),
               yz |-> EdgeCmp(edges[2], edges[3]),
               xz |-> EdgeCmp(edges[1], edges[3])]
    /\ UNCHANGED <<edges, mapVars>>

\* Three left edges compared with cmp, and the first two with partial_cmp
CompareLeft ==
    /\ res.op = "none"
    /\ \A i \in 1..3 : edges[i].side = "L"
    /\ res' = [op |-> "left",
               xy |-> LeftCmp(edges[1], edges[2]),
               yx |-> LeftCmp(edges[2], edges[1]),
               yz |-> LeftCmp(edges[2], edges[3]),
               xz |-> LeftCmp(edges[1], edges[3]),
               pxy |-> LeftPartialCmp(edges[1], edges[2])]
    /\ UNCHANGED <<edges, mapVars>>

\* Three right edges compared with cmp, and the first two with partial_cmp
CompareRight ==
    /\ res.op = "none"
    /\ \A i \in 1..3 : edges[i].side = "R"
    /\ res' = [op |-> "right",
               xy |-> RightCmp(edges[1], edges[2]),
               yx |-> RightCmp(edges[2], edges[1]),
               yz |-> RightCmp(edges[2], edges[3]),
               xz |-> RightCmp(edges[1], edges[3]),
               pxy |-> RightPartialCmp(edges[1], edges[2])]
    /\ UNCHANGED <<edges, mapVars>>

\* adjacent_left of a right edge, next to a left edge to compare it with
AdjacentLeft ==
    /\ res.op = "none"
    /\ edges[1].side = "R" /\ edges[2].side = "L"
    /\ res' = [op |-> "adjacent", adj |-> adjacent_left(edges[1])]
    /\ UNCHANGED <<edges, mapVars>>

EdgeNext == CompareCross \/ CompareChain \/ CompareLeft \/ CompareRight \/ AdjacentLeft

EdgeSpec == EdgeInit /\ [][EdgeNext]_vars

\* C17: for every left edge l and right edge r, r.partial_cmp(l) is the
\* reverse of l.partial_cmp(r), neither is None, and r == l iff l == r.
C17_CrossReverse ==
    res.op = "cross" =>
        /\ res.lr \in Orderings /\ res.rl \in Orderings
        /\ (res.lr = "Less") <=> (res.rl = "Greater")
        /\ (res.lr = "Greater") <=> (res.rl = "Less")
        /\ (res.lr = "Equal") <=> (res.rl = "Equal")
        /\ res.eq_rl <=> res.eq_lr

\* C17 witness: a cross comparison of two bounded edges at different values
\* gave Greater one way and Less the other
C17_Witness ==
    /\ res.op = "cross"
    /\ edges[1].kind # "Unbounded" /\ edges[2].kind # "Unbounded"
    /\ edges[1].t > edges[2].t
    /\ res.lr = "Greater" /\ res.rl = "Less"

\* C18: a left edge l and a right edge r are equal iff both are Included at
\* the same value, and l.partial_cmp(r) is Equal iff l == r; Unbounded left
\* never equals Unbounded right.
C18_CrossEquality ==
    res.op = "cross" =>
        LET l == edges[1]
            r == edges[2]
        IN  /\ res.eq_lr <=> (l.kind = "Included" /\ r.kind = "Included" /\ l.t = r.t)
            /\ (res.lr = "Equal") <=> res.eq_lr
            /\ (l.kind = "Unbounded" /\ r.kind = "Unbounded") => (~res.eq_lr /\ res.lr # "Equal")

\* C18 witness: Included(v) on both sides compared Equal and tested equal
C18_Witness ==
    /\ res.op = "cross"
    /\ edges[1].kind = "Included" /\ edges[2].kind = "Included" /\ edges[1].t = edges[2].t
    /\ res.eq_lr /\ res.lr = "Equal"

\* C18 witness for the other side: same value, one edge Excluded, not equal
C18_WitnessExcluded ==
    /\ res.op = "cross"
    /\ edges[1].kind = "Included" /\ edges[2].kind = "Excluded" /\ edges[1].t = edges[2].t
    /\ ~res.eq_lr /\ res.lr = "Greater"

\* The position of an edge on the key line, with eps = 1 and the values
\* spread by 3: left Unbounded below and right Unbounded above every value
Position(e) ==
    IF e.kind = "Unbounded" THEN (IF e.side = "L" THEN 0 ELSE 6 * MaxKey + 3)
    ELSE IF e.kind = "Included" THEN 3 * e.t
    ELSE IF e.side = "L" THEN 3 * e.t + 1 ELSE 3 * e.t - 1

\* C19: l.partial_cmp(r) is the comparison of the positions of l and r on the
\* key line (left Unbounded = -inf, Included(v) = v, left Excluded(v) = v+eps,
\* right Excluded(v) = v-eps, right Unbounded = +inf).  At the same value a
\* left Excluded is greater than a right Included and a right Excluded, a left
\* Included is greater than a right Excluded; at different values the result
\* is the order of the values.
C19_CrossGeometric ==
    res.op = "cross" =>
        LET l == edges[1]
            r == edges[2]
            bounded == l.kind # "Unbounded" /\ r.kind # "Unbounded"
        IN  /\ res.lr = TCmp(Position(l), Position(r))
            /\ (bounded /\ l.t = r.t /\ l.kind = "Excluded") => res.lr = "Greater"
            /\ (bounded /\ l.t = r.t /\ l.kind = "Included" /\ r.kind = "Excluded")
                   => res.lr = "Greater"
            /\ (bounded /\ l.t # r.t) => res.lr = TCmp(l.t, r.t)

\* C19 witness: left Excluded(v) against right Included(v) compared Greater
C19_Witness ==
    /\ res.op = "cross"
    /\ edges[1].kind = "Excluded" /\ edges[2].kind = "Included" /\ edges[1].t = edges[2].t
    /\ res.lr = "Greater"

\* x < y and x <= y on comparison results
IsLt(o) == o = "Less"
IsLe(o) == o = "Less" \/ o = "Equal"

\* C20: for any three edges x, y, z, each a left or a right edge, x < y and
\* y < z imply x < z, and x <= y and y < z imply x < z; for left edges a <= b
\* and a right edge r, r < a implies r < b.
C20_MixedTransitivity ==
    res.op = "chain" =>
        /\ (IsLt(res.xy) /\ IsLt(res.yz)) => IsLt(res.xz)
        /\ (IsLe(res.xy) /\ IsLt(res.yz)) => IsLt(res.xz)
        /\ (edges[1].side = "R" /\ edges[2].side = "L" /\ edges[3].side = "L"
            /\ IsLt(res.xy) /\ IsLe(res.yz)) => IsLt(res.xz)

\* C20 witness: a chain right edge < left edge <= left edge at one value, the
\* case of the loop of update_set_in_span stopping at the first key past
\* span.right
C20_Witness ==
    /\ res.op = "chain"
    /\ edges[1].side = "R" /\ edges[2].side = "L" /\ edges[3].side = "L"
    /\ edges[1].kind = "Included" /\ edges[2].kind = "Excluded" /\ edges[3].kind = "Included"
    /\ edges[1].t = edges[2].t /\ edges[3].t > edges[2].t
    /\ IsLt(res.xy) /\ IsLt(res.yz) /\ IsLt(res.xz)


\* C21: LeftBound::cmp is a total order on left edges: every two edges are
\* compared, cmp(y, x) is the reverse of cmp(x, y), Equal is returned exactly
\* for identical edges, and the order is transitive.  Unbounded is the least
\* edge, Included(v) < Excluded(v) at one value, and edges at different
\* values are ordered by their values whatever their kinds.  partial_cmp
\* returns Some of the result of cmp.
C21_LeftTotalOrder ==
    res.op = "left" =>
        LET x == edges[1]
            y == edges[2]
            bounded == x.kind # "Unbounded" /\ y.kind # "Unbounded"
        IN  /\ res.xy \in Orderings
            /\ res.yx = Reverse(res.xy)
            /\ (res.xy = "Equal") <=> (x = y)
            /\ (IsLe(res.xy) /\ IsLe(res.yz)) => IsLe(res.xz)
            /\ (IsLt(res.xy) /\ IsLe(res.yz)) => IsLt(res.xz)
            /\ (IsLe(res.xy) /\ IsLt(res.yz)) => IsLt(res.xz)
            /\ (x.kind = "Unbounded" /\ y.kind # "Unbounded") => res.xy = "Less"
            /\ (bounded /\ x.t = y.t /\ x.kind = "Included" /\ y.kind = "Excluded")
                   => res.xy = "Less"
            /\ (bounded /\ x.t # y.t) => res.xy = TCmp(x.t, y.t)
            /\ res.pxy = {res.xy}

\* C21 witness: Included(v) compared Less than Excluded(v), Greater the other
\* way, by cmp and by partial_cmp
C21_Witness ==
    /\ res.op = "left"
    /\ edges[1].kind = "Included" /\ edges[2].kind = "Excluded" /\ edges[1].t = edges[2].t
    /\ res.xy = "Less" /\ res.yx = "Greater" /\ res.pxy = {"Less"}

\* C22: RightBound::cmp is a total order on right edges: every two edges are
\* compared, cmp(y, x) is the reverse of cmp(x, y), Equal is returned exactly
\* for identical edges, and the order is transitive.  Unbounded is the
\* greatest edge, Excluded(v) < Included(v) at one value, and edges at
\* different values are ordered by their values whatever their kinds.
\* partial_cmp returns Some of the result of cmp.
C22_RightTotalOrder ==
    res.op = "right" =>
        LET x == edges[1]
            y == edges[2]
            bounded == x.kind # "Unbounded" /\ y.kind # "Unbounded"
        IN  /\ res.xy \in Orderings
            /\ res.yx = Reverse(res.xy)
            /\ (res.xy = "Equal") <=> (x = y)
            /\ (IsLe(res.xy) /\ IsLe(res.yz)) => IsLe(res.xz)
            /\ (IsLt(res.xy) /\ IsLe(res.yz)) => IsLt(res.xz)
            /\ (IsLe(res.xy) /\ IsLt(res.yz)) => IsLt(res.xz)
            /\ (x.kind = "Unbounded" /\ y.kind # "Unbounded") => res.xy = "Greater"
            /\ (bounded /\ x.t = y.t /\ x.kind = "Excluded" /\ y.kind = "Included")
                   => res.xy = "Less"
            /\ (bounded /\ x.t # y.t) => res.xy = TCmp(x.t, y.t)
            /\ res.pxy = {res.xy}

\* C22 witness: Excluded(v) compared Less than Included(v), Greater the other
\* way, and Unbounded compared Greater than Included(v)
C22_Witness ==
    /\ res.op = "right"
    /\ edges[1].kind = "Excluded" /\ edges[2].kind = "Included" /\ edges[1].t = edges[2].t
    /\ edges[3].kind = "Unbounded"
    /\ res.xy = "Less" /\ res.yx = "Greater" /\ res.pxy = {"Less"} /\ res.yz = "Less"


\* C26: adjacent_left maps right Included(v) to left Excluded(v), right
\* Excluded(v) to left Included(v) and right Unbounded to None.  For a bounded
\* right edge r it is the least left edge strictly greater than r in the
\* cross order: r < adjacent_left(r), and every left edge l with
\* l < adjacent_left(r) has l <= r.
C26_AdjacentLeftLeast ==
    res.op = "adjacent" =>
        LET r == edges[1]
            l == edges[2]
        IN  /\ r.kind = "Included" => res.adj = {LExcluded(r.t)}
            /\ r.kind = "Excluded" => res.adj = {LIncluded(r.t)}
            /\ r.kind = "Unbounded" => res.adj = {}
            /\ \A a \in res.adj :
                /\ RightCmpLeft(r, a) = "Less"
                /\ LeftCmp(l, a) = "Less" => IsLe(LeftCmpRight(l, r))
                /\ LeftCmpRight(l, r) = "Greater" => LeftCmp(l, a) # "Less"

\* C26 witness: for right Excluded(v), adjacent_left is Included(v), and the
\* left edge just below it, Excluded of a smaller value, is below the right edge
C26_Witness ==
    /\ res.op = "adjacent"
    /\ edges[1].kind = "Excluded" /\ edges[2].kind = "Excluded" /\ edges[2].t < edges[1].t
    /\ res.adj = {LIncluded(edges[1].t)}
    /\ LeftCmp(edges[2], LIncluded(edges[1].t)) = "Less"
    /\ LeftCmpRight(edges[2], edges[1]) = "Less"

\* ------------------------------------------------------- span comparisons
\* Two spans built with Span::new from any four edges: edges holds the left
\* and right edge of the first span, then of the second
SpanA == SpanNew(edges[1], edges[2])
SpanB == SpanNew(edges[3], edges[4])

SpanInit ==
    /\ m = new
    /\ cov = [k \in QueryKeys |-> {}]
    /\ prev = new
    /\ last = [op |-> "new", span |-> SpanNew(LUnbounded, RUnbounded), value |-> 0]
    /\ repeat = FALSE
    /\ nops = 0
    /\ edges \in LeftBounds \X RightBounds \X LeftBounds \X RightBounds
    /\ res = [op |-> "none"]

\* The two spans compared both ways and tested for equality
CompareSpans ==
    /\ res.op = "none"
    /\ res' = [op |-> "span",
               ab |-> SpanPartialCmp(SpanA, SpanB),
               ba |-> SpanPartialCmp(SpanB, SpanA),
               eq |-> SpanEq(SpanA, SpanB)]
    /\ UNCHANGED <<edges, mapVars>>

\* One span compared with itself
CompareSelf ==
    /\ res.op = "none"
    /\ res' = [op |-> "self", aa |-> SpanPartialCmp(SpanA, SpanA)]
    /\ UNCHANGED <<edges, mapVars>>

SpanNext == CompareSpans \/ CompareSelf

SpanSpec == SpanInit /\ [][SpanNext]_vars

\* Option<Ordering>::map(Ordering::reverse)
ReverseOpt(o) == {Reverse(x) : x \in o}

\* Both spans have left <= right in the cross order
BothWellFormed == ~Inverted(SpanA) /\ ~Inverted(SpanB)

\* The two spans share a key
Overlap(A, B) == \E k \in QueryKeys : Contains(A, k) /\ Contains(B, k)

\* C23: for all spans A and B built with Span::new, A < B iff A.right <
\* B.left in the cross order, A > B iff B < A, that is iff A.left > B.right,
\* and A.partial_cmp(B) is the reverse of B.partial_cmp(A).
C23_SpanEdgeOrder ==
    res.op = "span" =>
        /\ (res.ab = {"Less"}) <=> (RightCmpLeft(SpanA.right, SpanB.left) = "Less")
        /\ (res.ab = {"Greater"}) <=> (res.ba = {"Less"})
        /\ (res.ab = {"Greater"}) <=> (LeftCmpRight(SpanA.left, SpanB.right) = "Greater")
        /\ res.ab = ReverseOpt(res.ba)

\* The order of C23 on spans that each have left <= right
C23_WellFormedOrder == BothWellFormed => C23_SpanEdgeOrder

\* Two spans, at least one inverted, each compared Less than the other
C23_BothLess ==
    /\ res.op = "span"
    /\ res.ab = {"Less"} /\ res.ba = {"Less"}

\* C24: for all spans A and B, A.partial_cmp(B) is None iff A and B share a
\* point of the key line and are not edge-identical; [2, 4) and [4, +inf)
\* touch without overlap and are ordered, (-inf, 4] and [4, +inf) share the
\* point 4 and are incomparable.
C24_OverlapIncomparable ==
    res.op = "span" =>
        (res.ab = {}) <=> (Overlap(SpanA, SpanB) /\ ~SpanEq(SpanA, SpanB))

\* C24, for spans with left <= right: for all spans A and B that each have
\* left <= right in the cross order, A.partial_cmp(B) is None iff A and B
\* share a point of the key line and are not edge-identical.
C24_WellFormedOverlap ==
    (res.op = "span" /\ BothWellFormed) =>
        (res.ab = {}) <=> (Overlap(SpanA, SpanB) /\ ~SpanEq(SpanA, SpanB))

\* C24 witness: (-inf, v) against [v, +inf), touching and ordered, or
\* (-inf, v] against [v, +inf), sharing the point v and incomparable
C24_Touching ==
    /\ res.op = "span"
    /\ edges[2].kind # "Unbounded" /\ edges[3] = LIncluded(edges[2].t)
    /\ edges[1] = LUnbounded /\ edges[4] = RUnbounded
    /\ \/ edges[2].kind = "Excluded" /\ res.ab = {"Less"} /\ res.ba = {"Greater"}
       \/ edges[2].kind = "Included" /\ res.ab = {} /\ res.ba = {}

\* C25: A.partial_cmp(B) is Some(Equal) iff A.left == B.left and A.right ==
\* B.right, and A.partial_cmp(A) is Some(Equal) for every span A.
C25_EqualAgrees ==
    /\ res.op = "span" => ((res.ab = {"Equal"}) <=> (SpanA.left = SpanB.left /\ SpanA.right = SpanB.right))
    /\ res.op = "self" => res.aa = {"Equal"}

\* The equality of C25 on spans that each have left <= right
C25_WellFormedEqual == BothWellFormed => C25_EqualAgrees

\* A span with left <= right compared Equal with itself
C25_SelfEqual ==
    /\ res.op = "self"
    /\ ~Inverted(SpanA)
    /\ res.aa = {"Equal"}

====
